---- MODULE Spec2Model ----
(***************************************************************************)
(* Model of the ECG acquisition pipeline of FYP-App:                       *)
(*   src/App.tsx                      the acquisition session (React       *)
(*                                    component: handlers, timers, refs)   *)
(*   src/services/bluetoothService.ts the link and the frame reassembler   *)
(*   src/services/ecgSimulator.ts     the synthetic source                 *)
(*                                                                         *)
(* Text is a sequence of one-character strings.  A voltage is an exact     *)
(* decimal [num, scale] meaning num * 10^(-scale), with no trailing zero   *)
(* in the fraction, so that "1.0" and "1" parse to the same value.         *)
(***************************************************************************)
EXTENDS Integers, Sequences, FiniteSets, TLC

(***************************************************************************)
(* Bounds of the model.                                                    *)
(***************************************************************************)
\* longest enumerated input stream of the reassembler specification
MaxStreamLen == 4
\* calls of handleStart in one behaviour of the session specification
MaxRuns == 2
\* samples produced (polled or delivered) in one behaviour of the session
MaxSamples == 1
\* samples appended beyond the window cap in the window specification
MaxOver == 3
\* start/stopNotifications calls in flight at a time
MaxPending == 2
\* samples in the pending queue at a time in the window specification
MaxBatch == 2
\* the window specification also starts from runs that have already
\* appended WindowCap - Lead .. WindowCap samples
Lead == 2
\* the last reading of Date.now() in the clock specification
MaxNow == 2
\* samples produced in one behaviour of the clock specification
MaxTimed == 2
\* the largest elapsed time, in ms, generateECGSignal is called with
MaxTime == 3

(***************************************************************************)
(* Program constants.                                                      *)
(***************************************************************************)
\* newHistory.length > 5000 ? newHistory.slice(-5000) : newHistory
WindowCap == 5000
\* setCountdown(5)
CountdownFrom == 5
\* useState(72) and ECGSimulator's private bpm: number = 72
DefaultBpm == 72

(***************************************************************************)
(* Text: characters, bytes, TextDecoder, String.prototype.trim / split,    *)
(* parseFloat.                                                             *)
(***************************************************************************)
NL == "\n"
NBSP == "nbsp"        \* U+00A0, a white space character of two UTF-8 bytes
FFFD == "fffd"        \* U+FFFD, what TextDecoder puts for a malformed byte
DigitChars == {"0", "1", "2", "3", "4", "5", "6", "7", "8", "9"}
WhiteSpace == {" ", NBSP}

DigitVal(c) ==
  CASE c = "0" -> 0 [] c = "1" -> 1 [] c = "2" -> 2 [] c = "3" -> 3
    [] c = "4" -> 4 [] c = "5" -> 5 [] c = "6" -> 6 [] c = "7" -> 7
    [] c = "8" -> 8 [] c = "9" -> 9

\* UTF-8 encoding of a text: every character of the model is one byte (itself)
\* but U+00A0, which is the two bytes C2 A0.
RECURSIVE Encode(_)
Encode(text) ==
  IF text = <<>> THEN <<>>
  ELSE (IF Head(text) = NBSP THEN <<"C2", "A0">> ELSE <<Head(text)>>)
         \o Encode(Tail(text))

\* new TextDecoder().decode(value): UTF-8, not streaming, so a byte sequence
\* that is not a whole character becomes U+FFFD.
RECURSIVE Decode(_)
Decode(bytes) ==
  IF bytes = <<>> THEN <<>>
  ELSE IF Head(bytes) = "C2"
    THEN IF Len(bytes) >= 2 /\ bytes[2] = "A0"
           THEN <<NBSP>> \o Decode(Tail(Tail(bytes)))
           ELSE <<FFFD>> \o Decode(Tail(bytes))
  ELSE IF Head(bytes) = "A0" THEN <<FFFD>> \o Decode(Tail(bytes))
  ELSE <<Head(bytes)>> \o Decode(Tail(bytes))

\* s.split('\n'): the pieces between newlines; never empty.
RECURSIVE Split(_)
Split(s) ==
  IF \A i \in 1..Len(s) : s[i] # NL THEN <<s>>
  ELSE LET k == CHOOSE i \in 1..Len(s) :
                  s[i] = NL /\ \A j \in 1..(i - 1) : s[j] # NL
       IN  <<SubSeq(s, 1, k - 1)>> \o Split(SubSeq(s, k + 1, Len(s)))

\* line.trim()
RECURSIVE TrimLeft(_)
TrimLeft(s) ==
  IF s # <<>> /\ Head(s) \in WhiteSpace THEN TrimLeft(Tail(s)) ELSE s

RECURSIVE TrimRight(_)
TrimRight(s) ==
  IF s # <<>> /\ s[Len(s)] \in WhiteSpace
    THEN TrimRight(SubSeq(s, 1, Len(s) - 1)) ELSE s

Trim(s) == TrimRight(TrimLeft(s))

\* the length of the longest prefix of s made of digits
RECURSIVE DigitRun(_)
DigitRun(s) ==
  IF s # <<>> /\ Head(s) \in DigitChars THEN 1 + DigitRun(Tail(s)) ELSE 0

RECURSIVE DigitsValue(_)
DigitsValue(s) ==
  IF s = <<>> THEN 0
  ELSE 10 * DigitsValue(SubSeq(s, 1, Len(s) - 1)) + DigitVal(s[Len(s)])

RECURSIVE Normalize(_, _)
Normalize(num, scale) ==
  IF scale > 0 /\ num % 10 = 0 THEN Normalize(num \div 10, scale - 1)
  ELSE [num |-> num, scale |-> scale]

NaN == [nan |-> TRUE]

\* parseFloat(trimmed): the value of the longest prefix that is a decimal
\* literal (sign, digits, fraction), NaN when there is none.  The model's
\* alphabet has no exponent and no "Infinity".
ParseFloat(s) ==
  LET signed == s # <<>> /\ Head(s) \in {"-", "+"}
      neg    == s # <<>> /\ Head(s) = "-"
      body   == IF signed THEN Tail(s) ELSE s
      il     == DigitRun(body)
      rest   == SubSeq(body, il + 1, Len(body))
      dot    == rest # <<>> /\ Head(rest) = "."
      fl     == IF dot THEN DigitRun(Tail(rest)) ELSE 0
      digits == SubSeq(body, 1, il) \o
                  (IF dot THEN SubSeq(rest, 2, fl + 1) ELSE <<>>)
      mag    == DigitsValue(digits)
  IN  IF il + fl = 0 THEN NaN
      ELSE Normalize(IF neg THEN 0 - mag ELSE mag, fl)

IsNaN(v) == v = NaN

(***************************************************************************)
(* State.                                                                  *)
(***************************************************************************)
VARIABLES
  \* App.tsx, React state
  status,                \* SensorStatus
  ecgData,               \* the sample window
  countdown,             \* number | null
  isBluetoothConnected,
  btError,               \* string | null
  targetBpm,             \* the simulated heart rate setting
  bpm,                   \* the rate shown
  analysis,              \* AnalysisResult | null
  isAnalyzing,
  \* App.tsx, refs
  timerRef,              \* the run whose acquisition interval it holds, or NoTimer
  startupTimerRef,       \* the run whose startup timeout it holds, or NoTimer
  countdownIntervalRef,  \* the run whose countdown interval it holds, or NoTimer
  incomingDataBuffer,    \* the pending queue
  \* the browser's timers: the set of timers that are set and not cleared
  timers,
  runs,                  \* the number of handleStart calls so far
  \* ECGSimulator
  simActive,
  simStartTime,
  simBpm,                \* this.bpm
  \* BluetoothService and the link behind it
  device,                \* this.device is set
  gattConnected,         \* device.gatt.connected
  characteristic,        \* this.characteristic is set
  onDataCallback,        \* this.onDataCallback is set (to the stream callback)
  dataBuffer,            \* the carry-over buffer
  listeners,             \* 'characteristicvaluechanged' listeners attached
  notifying,             \* the device sends notifications
  gattQueue,             \* start/stopNotifications calls not yet settled
  connectPc,             \* where the connect() in flight is
  \* the environment
  now,                   \* Date.now()
  total,                 \* samples produced so far
  cancelled,             \* "stop" / "reset" since handleStop / handleReset
                         \* ran and no handleStart after it, else "no"
  \* the input of the reassembler specification
  stream,                \* text not yet delivered
  fed,                   \* text delivered
  splitAt,               \* where the last chunk boundary inside a record
                         \* fell (characters before it), 0 when none did
  \* the interpretation service
  analysisRequest,       \* the analyzeECGSegment call in flight, or NoRequest
  \* the input of the synthesizer specification
  synthCall,             \* the arguments of the last generateECGSignal call
  synthOut               \* what it returned

appVars == <<status, ecgData, countdown, isBluetoothConnected, timerRef,
             startupTimerRef, countdownIntervalRef, incomingDataBuffer>>
timerVars == <<timers, runs>>
simVars == <<simActive, simStartTime, simBpm>>
linkVars == <<device, gattConnected, characteristic, onDataCallback,
              dataBuffer, listeners, notifying, gattQueue, connectPc>>
envVars == <<now, total, cancelled>>
inputVars == <<stream, fed, splitAt>>
reportVars == <<bpm, analysis, isAnalyzing, analysisRequest>>
synthVars == <<synthCall, synthOut>>
otherVars == <<btError, targetBpm, reportVars, synthVars>>
vars == <<appVars, timerVars, simVars, linkVars, envVars, inputVars, otherVars>>

\* useRef<number | null>(null): no timer id; timer ids are positive
NoTimer == 0
\* useState<number | null>(null): the countdown is not shown
NoCountdown == -1
\* useState<string | null>(null): no error is shown
NoError == "null"
\* setBtError("Stream failed")
StreamFailed == "Stream failed"
\* setBtError(err.message || "Failed to connect")
ConnectFailed == "Failed to connect"
\* useState<AnalysisResult | null>(null): no report is shown
NoReport == [none |-> TRUE]
\* no analyzeECGSegment call is in flight
NoRequest == [none |-> TRUE]
\* generateECGSignal was not called yet
NoCall == [none |-> TRUE]
DISCONNECTED == "DISCONNECTED"
CONNECTING == "CONNECTING"
CONNECTED == "CONNECTED"
ACQUIRING == "ACQUIRING"

(***************************************************************************)
(* BluetoothService.handleNotifications: the frame reassembler.            *)
(***************************************************************************)
\* this.dataBuffer = lines.pop() || ""
CarryOverDropped(lines) == <<>>

CarryOver(lines) == lines[Len(lines)]

\* what is left in `lines` after lines.pop()
CompleteLinesWithFragment(lines) == lines

CompleteLines(lines) == SubSeq(lines, 1, Len(lines) - 1)

\* the body of the for loop: the voltages handed to onDataCallback
RECURSIVE EmitLines(_, _)
EmitLines(lines, hasCallback) ==
  IF lines = <<>> THEN <<>>
  ELSE LET trimmed == Trim(Head(lines))
           voltage == ParseFloat(trimmed)
           here    == IF Len(trimmed) > 0 /\ ~IsNaN(voltage) /\ hasCallback
                        THEN <<voltage>> ELSE <<>>
       IN  here \o EmitLines(Tail(lines), hasCallback)

\* one call of handleNotifications: the new carry-over buffer and the
\* voltages handed to the callback, in order
HandleNotifications(buffer, value, hasCallback) ==
  LET chunk == Decode(value)
      lines == Split(buffer \o chunk)
  IN  [dataBuffer |-> CarryOver(lines),
       out        |-> EmitLines(CompleteLines(lines), hasCallback)]

\* an event dispatched to n attached listeners: n calls in a row
RECURSIVE Dispatch(_, _, _, _)
Dispatch(n, buffer, value, hasCallback) ==
  IF n = 0 THEN [dataBuffer |-> buffer, out |-> <<>>]
  ELSE LET first == HandleNotifications(buffer, value, hasCallback)
           rest  == Dispatch(n - 1, first.dataBuffer, value, hasCallback)
       IN  [dataBuffer |-> rest.dataBuffer, out |-> first.out \o rest.out]

(***************************************************************************)
(* The sample window and the pending queue (App.tsx).                      *)
(***************************************************************************)
LastN(h, n) == SubSeq(h, Len(h) - n + 1, Len(h))

\* newHistory.length > 5000 ? newHistory.slice(-5000) : newHistory
AppendKeepOldest(prev, points) ==
  LET newHistory == prev \o points
  IN  IF Len(newHistory) > WindowCap THEN SubSeq(newHistory, 1, WindowCap)
      ELSE newHistory

AppendCapped(prev, points) ==
  LET newHistory == prev \o points
  IN  IF Len(newHistory) > WindowCap THEN LastN(newHistory, WindowCap)
      ELSE newHistory

\* the stream callback of handleStart: one point pushed per voltage, stamped
\* Date.now() - (timerRef.current ? 0 : Date.now())
PushAll(queue, voltages) ==
  queue \o [i \in 1..Len(voltages) |->
             [time    |-> IF timerRef # NoTimer THEN now ELSE 0,
              voltage |-> voltages[i]]]

Volt(n) == [num |-> n, scale |-> 0]

\* ecgData.map(d => d.voltage)
Voltages(points) == [i \in 1..Len(points) |-> points[i].voltage]

\* [...incomingDataBuffer.current].map(p => ({...p, time: Date.now() - startTime}))
RestampedNewestFirst(queue, time) ==
  [i \in 1..Len(queue) |-> [queue[Len(queue) + 1 - i] EXCEPT !.time = time]]

Restamped(queue, time) ==
  [i \in 1..Len(queue) |-> [queue[i] EXCEPT !.time = time]]

(***************************************************************************)
(* Timers.  A timer is named by its kind and by the handleStart call (run) *)
(* that set it or whose startup timeout set it; bt and rate are the values *)
(* of isBluetoothConnected and targetBpm that the closure of that call     *)
(* captured, startTime the constant captured by the flush interval.        *)
(***************************************************************************)
Timer(kind, run, bt, startTime, rate) ==
  [kind |-> kind, run |-> run, bt |-> bt, startTime |-> startTime,
   rate |-> rate]

OfKind(kind) == {t \in timers : t.kind = kind}

\* clearInterval(ref) / clearTimeout(ref): the timers left
Cleared(set, kind, ref) == {t \in set : ~(t.kind = kind /\ t.run = ref)}

Doomed(queue) == [i \in 1..Len(queue) |-> [queue[i] EXCEPT !.doomed = TRUE]]

(***************************************************************************)
(* The controls the component renders (the guards of the handlers).        *)
(***************************************************************************)
\* the start button is there in every status but CONNECTING and ACQUIRING
StartButtonAlways == status # ACQUIRING

StartButtonRendered == status # CONNECTING /\ status # ACQUIRING

StopButtonRendered == status = ACQUIRING

\* disabled={status === ACQUIRING || status === CONNECTING}
BluetoothButtonEnabled == status # ACQUIRING /\ status # CONNECTING

ResetButtonEnabled == status # ACQUIRING /\ status # CONNECTING

(***************************************************************************)
(* Init: the component after its first render.                             *)
(***************************************************************************)
InitApp ==
  /\ status = DISCONNECTED
  /\ ecgData = <<>>
  /\ countdown = NoCountdown
  /\ isBluetoothConnected = FALSE
  /\ timerRef = NoTimer
  /\ startupTimerRef = NoTimer
  /\ countdownIntervalRef = NoTimer
  /\ incomingDataBuffer = <<>>
  /\ timers = {}
  /\ runs = 0

InitSim ==
  /\ simActive = FALSE
  /\ simStartTime = 0
  /\ simBpm = DefaultBpm

InitLink ==
  /\ device = FALSE
  /\ gattConnected = FALSE
  /\ characteristic = FALSE
  /\ onDataCallback = FALSE
  /\ dataBuffer = <<>>
  /\ listeners = 0
  /\ notifying = FALSE
  /\ gattQueue = <<>>
  /\ connectPc = "idle"

InitEnv ==
  /\ now = 0
  /\ total = 0
  /\ cancelled = "no"

NoInput ==
  /\ stream = <<>>
  /\ fed = <<>>
  /\ splitAt = 0

InitOther ==
  /\ btError = NoError
  /\ targetBpm = DefaultBpm
  /\ bpm = 0
  /\ analysis = NoReport
  /\ isAnalyzing = FALSE
  /\ analysisRequest = NoRequest
  /\ synthCall = NoCall
  /\ synthOut = NoCall

Init == InitApp /\ InitSim /\ InitLink /\ InitEnv /\ NoInput /\ InitOther

(***************************************************************************)
(* handleStart, handleStop, handleReset.                                   *)
(***************************************************************************)
HandleStart ==
  /\ StartButtonRendered
  /\ runs < MaxRuns
  /\ status' = CONNECTING
  /\ countdown' = CountdownFrom
  /\ ecgData' = <<>>
  /\ incomingDataBuffer' = <<>>
  /\ runs' = runs + 1
  /\ countdownIntervalRef' = runs'
  /\ startupTimerRef' = runs'
  /\ timers' = timers \cup
       {Timer("countdown", runs', FALSE, 0, targetBpm),
        Timer("startup", runs', isBluetoothConnected, 0, targetBpm)}
  /\ cancelled' = "no"
  /\ analysis' = NoReport
  /\ UNCHANGED <<isBluetoothConnected, timerRef, simVars, linkVars, now,
                 total, inputVars, btError, targetBpm, bpm, isAnalyzing,
                 analysisRequest, synthVars>>

\* stopStreaming(): stopNotifications() is called when there is a
\* characteristic; what follows the await is in GattSettle
StopStreamingCalled(queue) ==
  IF characteristic THEN Append(queue, [op |-> "stop", doomed |-> ~gattConnected])
  ELSE queue

\* the timers left by handleStop run on the set `set`
StopTimers(set) ==
  Cleared(Cleared(Cleared(set, "acq", timerRef), "startup", startupTimerRef),
          "countdown", countdownIntervalRef)

\* handleStop as closed over bt = isBluetoothConnected; everything but the
\* timers, which the callers set with StopTimers
StopBody(bt, queue) ==
  /\ IF bt
       THEN /\ gattQueue' = StopStreamingCalled(queue)
            /\ simActive' = simActive
       ELSE /\ gattQueue' = queue
            /\ simActive' = FALSE
  /\ timerRef' = NoTimer
  /\ startupTimerRef' = NoTimer
  /\ countdownIntervalRef' = NoTimer
  /\ countdown' = NoCountdown

HandleStop ==
  /\ StopButtonRendered
  /\ Len(gattQueue) < MaxPending
  /\ StopBody(isBluetoothConnected, gattQueue)
  /\ timers' = StopTimers(timers)
  /\ status' = CONNECTED
  /\ cancelled' = "stop"
  /\ UNCHANGED <<ecgData, isBluetoothConnected, incomingDataBuffer, runs,
                 simStartTime, simBpm, device, gattConnected, characteristic,
                 onDataCallback, dataBuffer, listeners, notifying, connectPc,
                 now, total, inputVars, otherVars>>

HandleReset ==
  /\ ResetButtonEnabled
  /\ Len(gattQueue) < MaxPending
  /\ StopBody(isBluetoothConnected, gattQueue)
  /\ timers' = StopTimers(timers)
  /\ ecgData' = <<>>
  /\ status' = IF isBluetoothConnected THEN CONNECTED ELSE DISCONNECTED
  /\ cancelled' = "reset"
  /\ analysis' = NoReport
  /\ bpm' = 0
  /\ UNCHANGED <<isBluetoothConnected, incomingDataBuffer, runs,
                 simStartTime, simBpm, device, gattConnected, characteristic,
                 onDataCallback, dataBuffer, listeners, notifying, connectPc,
                 now, total, inputVars, btError, targetBpm, isAnalyzing,
                 analysisRequest, synthVars>>

(***************************************************************************)
(* Timer callbacks of handleStart.                                         *)
(***************************************************************************)
\* setCountdown(prev => (prev !== null && prev > 0 ? prev - 1 : 0))
CountdownTick(t) ==
  /\ t \in OfKind("countdown")
  /\ countdown' = IF countdown # NoCountdown /\ countdown > 0
                    THEN countdown - 1 ELSE 0
  /\ UNCHANGED <<status, ecgData, isBluetoothConnected, timerRef,
                 startupTimerRef, countdownIntervalRef, incomingDataBuffer,
                 timerVars, simVars, linkVars, now, total, cancelled,
                 inputVars, otherVars>>

\* the startup timeout of run t.run fires, 5000 ms after handleStart
StartupTimeout(t) ==
  /\ t \in OfKind("startup")
  /\ Len(gattQueue) < MaxPending
  /\ LET fired == Cleared(timers \ {t}, "countdown", countdownIntervalRef)
     IN
     IF t.bt /\ ~characteristic
       THEN \* startStreaming throws "No characteristic connected"; the catch
            \* runs handleStop once the callback has set the flush interval
            /\ StopBody(TRUE, gattQueue)
            /\ timers' = Cleared(fired, "startup", startupTimerRef)
            /\ status' = CONNECTED
            /\ cancelled' = "stop"
            /\ btError' = StreamFailed
            /\ UNCHANGED <<simStartTime, simBpm, onDataCallback>>
       ELSE
         /\ countdownIntervalRef' = NoTimer
         /\ countdown' = NoCountdown
         /\ status' = ACQUIRING
         /\ timerRef' = t.run
         /\ timers' = fired \cup {Timer("acq", t.run, t.bt, now, t.rate)}
         /\ IF t.bt
              THEN /\ onDataCallback' = TRUE
                   /\ gattQueue' = Append(gattQueue,
                                     [op |-> "start", doomed |-> ~gattConnected])
                   /\ UNCHANGED <<simActive, simStartTime, simBpm>>
              ELSE /\ simBpm' = t.rate
                   /\ simActive' = TRUE
                   /\ simStartTime' = now
                   /\ UNCHANGED <<onDataCallback, gattQueue>>
         /\ UNCHANGED <<startupTimerRef, cancelled, btError>>
  /\ UNCHANGED <<ecgData, isBluetoothConnected, incomingDataBuffer, runs,
                 device, gattConnected, characteristic, dataBuffer, listeners,
                 notifying, connectPc, now, total, inputVars, targetBpm,
                 reportVars, synthVars>>

\* the flush interval of an external run: the pending queue, restamped, is
\* appended to the window
FlushTick(t) ==
  /\ t \in OfKind("acq") /\ t.bt
  /\ Len(incomingDataBuffer) > 0
  /\ LET newPoints == Restamped(incomingDataBuffer, now - t.startTime)
     IN  ecgData' = AppendCapped(ecgData, newPoints)
  /\ incomingDataBuffer' = <<>>
  /\ UNCHANGED <<status, countdown, isBluetoothConnected, timerRef,
                 startupTimerRef, countdownIntervalRef, timerVars, simVars,
                 linkVars, now, total, cancelled, inputVars, otherVars>>

\* ECGSimulator.getDataPoint() when active; v is the value generateECGSignal
\* returns (it has a random term)
GetDataPoint(v) == [time |-> now - simStartTime, voltage |-> v]

\* the poll interval of a synthetic run
PollTick(t, v, limit) ==
  /\ t \in OfKind("acq") /\ ~t.bt
  /\ simActive
  /\ total < limit
  /\ total' = total + 1
  /\ ecgData' = AppendCapped(ecgData, <<GetDataPoint(v)>>)
  /\ UNCHANGED <<status, countdown, isBluetoothConnected, timerRef,
                 startupTimerRef, countdownIntervalRef, incomingDataBuffer,
                 timerVars, simVars, linkVars, now, cancelled, inputVars, otherVars>>

(***************************************************************************)
(* The link: notifications and the settling of start/stopNotifications.    *)
(***************************************************************************)
\* the chunks the device sends in the session specification: a record, or
\* the first half of one when no fragment is carried over
SessionChunks == {<<"1", NL>>, <<"1">>}

ChunkSent(chunkText) == chunkText[Len(chunkText)] = NL \/ dataBuffer = <<>>

\* a 'characteristicvaluechanged' event carrying the bytes of chunkText:
\* every attached listener runs handleNotifications
NotificationEvent(chunkText, limit) ==
  /\ notifying /\ gattConnected /\ listeners > 0
  /\ LET r == Dispatch(listeners, dataBuffer, Encode(chunkText), onDataCallback)
     IN  /\ total + Len(r.out) <= limit
         /\ dataBuffer' = r.dataBuffer
         /\ incomingDataBuffer' = PushAll(incomingDataBuffer, r.out)
         /\ total' = total + Len(r.out)
  /\ UNCHANGED <<status, ecgData, countdown, isBluetoothConnected, timerRef,
                 startupTimerRef, countdownIntervalRef, timerVars, simVars,
                 device, gattConnected, characteristic, onDataCallback,
                 listeners, notifying, gattQueue, connectPc, now, cancelled,
                 otherVars>>

Notification(chunkText) ==
  /\ ChunkSent(chunkText)
  /\ NotificationEvent(chunkText, MaxSamples)
  /\ UNCHANGED inputVars

\* characteristic.removeEventListener('characteristicvaluechanged',
\* this.handleNotifications.bind(this)): bind makes a new function, which is
\* none of the listeners attached, so none is removed
ListenersAfterRemoveBound(n) == IF n > 0 THEN n - 1 ELSE 0

ListenersAfterRemove(n) == n

\* startNotifications() resolves: startStreaming attaches a listener
GattStartOk ==
  /\ gattQueue # <<>>
  /\ Head(gattQueue).op = "start" /\ ~Head(gattQueue).doomed
  /\ gattQueue' = Tail(gattQueue)
  /\ notifying' = TRUE
  /\ listeners' = listeners + 1
  /\ UNCHANGED <<appVars, timerVars, simVars, device, gattConnected,
                 characteristic, onDataCallback, dataBuffer, connectPc, now,
                 total, cancelled, inputVars, otherVars>>

\* startNotifications() rejects (always so once the link is gone): the catch
\* of handleStart sets the error and calls the handleStop of its closure,
\* where isBluetoothConnected is true
GattStartFail ==
  /\ gattQueue # <<>>
  /\ Head(gattQueue).op = "start"
  /\ btError' = StreamFailed
  /\ StopBody(TRUE, Tail(gattQueue))
  /\ timers' = StopTimers(timers)
  /\ status' = CONNECTED
  /\ cancelled' = "stop"
  /\ UNCHANGED <<ecgData, isBluetoothConnected, incomingDataBuffer, runs,
                 simStartTime, simBpm, device, gattConnected, characteristic,
                 onDataCallback, dataBuffer, listeners, notifying, connectPc,
                 now, total, inputVars, targetBpm, reportVars, synthVars>>

\* stopNotifications() settles: resolved, the device stops notifying and
\* removeEventListener is called; rejected (always so once the link is
\* gone), a warning is logged
GattStop(resolved) ==
  /\ gattQueue # <<>>
  /\ Head(gattQueue).op = "stop"
  /\ resolved => ~Head(gattQueue).doomed
  /\ gattQueue' = Tail(gattQueue)
  /\ IF resolved
       THEN /\ notifying' = FALSE
            /\ listeners' = ListenersAfterRemove(listeners)
       ELSE UNCHANGED <<notifying, listeners>>
  /\ UNCHANGED <<appVars, timerVars, simVars, device, gattConnected,
                 characteristic, onDataCallback, dataBuffer, connectPc, now,
                 total, cancelled, inputVars, otherVars>>

\* the device drops the connection ('gattserverdisconnected'): onDisconnected
\* logs it; pending GATT operations will reject
LinkLost ==
  /\ gattConnected
  /\ gattConnected' = FALSE
  /\ notifying' = FALSE
  /\ gattQueue' = Doomed(gattQueue)
  /\ UNCHANGED <<appVars, timerVars, simVars, device, characteristic,
                 onDataCallback, dataBuffer, listeners, connectPc, now, total,
                 cancelled, inputVars, otherVars>>

(***************************************************************************)
(* handleBluetoothConnect / BluetoothService.connect and                   *)
(* handleBluetoothDisconnect.  One connect() is in flight at a time; what  *)
(* it sets between its awaits is read by no other handler before it ends.  *)
(***************************************************************************)
HandleBluetoothConnect ==
  /\ BluetoothButtonEnabled /\ ~isBluetoothConnected
  /\ connectPc = "idle"
  /\ btError' = NoError
  /\ connectPc' = "pending"
  /\ UNCHANGED <<appVars, timerVars, simVars, device, gattConnected,
                 characteristic, onDataCallback, dataBuffer, listeners,
                 notifying, gattQueue, now, total, cancelled, inputVars,
                 targetBpm, reportVars, synthVars>>

\* connect() returns true (its four awaits resolved) and
\* handleBluetoothConnect goes on after its await
ConnectDone ==
  /\ connectPc = "pending"
  /\ device' = TRUE
  /\ gattConnected' = TRUE
  /\ characteristic' = TRUE
  /\ listeners' = 0
  /\ connectPc' = "idle"
  /\ isBluetoothConnected' = TRUE
  /\ status' = CONNECTED
  /\ simActive' = FALSE
  /\ UNCHANGED <<ecgData, countdown, timerRef, startupTimerRef,
                 countdownIntervalRef, incomingDataBuffer, timerVars,
                 simStartTime, simBpm, onDataCallback, dataBuffer, notifying,
                 gattQueue, now, total, cancelled, inputVars, otherVars>>

\* the awaits of connect(), in order
ConnectSteps == <<"requestDevice", "gatt.connect", "getPrimaryService",
                  "getCharacteristic">>

\* the catch of handleBluetoothConnect doing what handleBluetoothDisconnect
\* does
ConnectFailAsDisconnect(step, swallowed) ==
  /\ connectPc = "pending"
  /\ connectPc' = "idle"
  /\ isBluetoothConnected' = FALSE
  /\ status' = DISCONNECTED
  /\ UNCHANGED <<ecgData, countdown, timerRef, startupTimerRef,
                 countdownIntervalRef, incomingDataBuffer, timerVars, simVars,
                 device, gattConnected, characteristic, onDataCallback,
                 dataBuffer, listeners, notifying, gattQueue, now, total,
                 cancelled, inputVars, otherVars>>

\* await number `step` of connect() rejects after the earlier ones resolved
\* (the check for navigator.bluetooth throws like a rejected first await):
\* connect() rethrows; the catch of handleBluetoothConnect returns when the
\* error is swallowed (a NotFoundError, or a message with 'cancelled'), else
\* it sets the error and isBluetoothConnected false
ConnectFail(step, swallowed) ==
  /\ connectPc = "pending"
  /\ device' = (device \/ step > 1)
  /\ gattConnected' = (gattConnected \/ step > 2)
  /\ connectPc' = "idle"
  /\ IF swallowed
       THEN UNCHANGED <<btError, isBluetoothConnected>>
       ELSE /\ btError' = ConnectFailed
            /\ isBluetoothConnected' = FALSE
  /\ UNCHANGED <<status, ecgData, countdown, timerRef, startupTimerRef,
                 countdownIntervalRef, incomingDataBuffer, timerVars, simVars,
                 characteristic, onDataCallback, dataBuffer, listeners,
                 notifying, gattQueue, now, total, cancelled, inputVars,
                 targetBpm, reportVars, synthVars>>

\* the button of the error message: onClick={() => setBtError(null)}
DismissError ==
  /\ btError # NoError
  /\ btError' = NoError
  /\ UNCHANGED <<appVars, timerVars, simVars, linkVars, envVars, inputVars,
                 targetBpm, reportVars, synthVars>>

\* bluetoothRef.current.disconnect() and the three setters
HandleBluetoothDisconnect ==
  /\ BluetoothButtonEnabled /\ isBluetoothConnected
  /\ gattConnected' = FALSE
  /\ device' = FALSE
  /\ characteristic' = FALSE
  /\ listeners' = 0
  /\ notifying' = FALSE
  /\ gattQueue' = Doomed(gattQueue)
  /\ isBluetoothConnected' = FALSE
  /\ status' = DISCONNECTED
  /\ UNCHANGED <<ecgData, countdown, timerRef, startupTimerRef,
                 countdownIntervalRef, incomingDataBuffer, timerVars, simVars,
                 onDataCallback, dataBuffer, connectPc, now, total, cancelled,
                 inputVars, otherVars>>

(***************************************************************************)
(* The session specification.                                              *)
(***************************************************************************)
\* the value generateECGSignal returns, in the session specification
SimVoltage == Volt(0)

Next ==
  \/ HandleStart
  \/ HandleStop
  \/ HandleReset
  \/ \E t \in timers : CountdownTick(t)
  \/ \E t \in timers : StartupTimeout(t)
  \/ \E t \in timers : FlushTick(t)
  \/ \E t \in timers : PollTick(t, SimVoltage, MaxSamples)
  \/ \E c \in SessionChunks : Notification(c)
  \/ GattStartOk
  \/ GattStartFail
  \/ \E resolved \in BOOLEAN : GattStop(resolved)
  \/ LinkLost
  \/ HandleBluetoothConnect
  \/ ConnectDone
  \/ \E step \in DOMAIN ConnectSteps, swallowed \in BOOLEAN :
       ConnectFail(step, swallowed)
  \/ HandleBluetoothDisconnect
  \/ DismissError

Spec == Init /\ [][Next]_vars

(***************************************************************************)
(* States of a running session, from which the reassembler and the window  *)
(* specifications start: a first run, right after its startup timeout.     *)
(***************************************************************************)
\* the link of an external run: connect() done, startStreaming called and
\* startNotifications resolved
StreamingLink ==
  /\ device = TRUE
  /\ gattConnected = TRUE
  /\ characteristic = TRUE
  /\ onDataCallback = TRUE
  /\ dataBuffer = <<>>
  /\ listeners = 1
  /\ notifying = TRUE
  /\ gattQueue = <<>>
  /\ connectPc = "idle"

\* an external run: connect, handleStart, the timeout, startNotifications
\* resolved
ExternalRunStarted ==
  /\ status = ACQUIRING
  /\ ecgData = <<>>
  /\ countdown = NoCountdown
  /\ isBluetoothConnected = TRUE
  /\ timerRef = 1
  /\ startupTimerRef = 1
  /\ countdownIntervalRef = NoTimer
  /\ incomingDataBuffer = <<>>
  /\ timers = {Timer("acq", 1, TRUE, 0, DefaultBpm)}
  /\ runs = 1
  /\ InitSim
  /\ StreamingLink
  /\ InitEnv
  /\ InitOther

(***************************************************************************)
(* The reassembler specification: a text stream, cut into chunks in every  *)
(* way, is delivered to handleNotifications.                               *)
(***************************************************************************)
Alphabet == {"1", ".", NL, " ", "x", NBSP}

\* "1.0\n2.0\n3.5\n4.0\n"
ScenarioText ==
  <<"1", ".", "0", NL, "2", ".", "0", NL, "3", ".", "5", NL, "4", ".", "0", NL>>

\* "1.0\n2x\n-3.0\n"
MalformedText ==
  <<"1", ".", "0", NL, "2", "x", NL, "-", "3", ".", "0", NL>>

Streams ==
  UNION {[1..k -> Alphabet] : k \in 0..MaxStreamLen}
    \cup {ScenarioText, MalformedText}

InitReassembler ==
  /\ ExternalRunStarted
  /\ stream \in Streams
  /\ fed = <<>>
  /\ splitAt = 0

\* the next n characters of the stream arrive as one notification
Ingest(n) ==
  /\ n \in 1..Len(stream)
  /\ NotificationEvent(SubSeq(stream, 1, n), total + n)
  /\ stream' = SubSeq(stream, n + 1, Len(stream))
  /\ fed' = fed \o SubSeq(stream, 1, n)
  /\ splitAt' = IF n < Len(stream) /\ stream[n] # NL THEN Len(fed') ELSE splitAt

NextReassembler == \E n \in 1..(MaxStreamLen + Len(ScenarioText)) : Ingest(n)

SpecReassembler == InitReassembler /\ [][NextReassembler]_vars

(***************************************************************************)
(* The window specification: a long run of acquisition ticks.  The i-th    *)
(* sample produced has voltage i.                                          *)
(***************************************************************************)
\* the run as it starts, or as it is after p samples were produced and
\* appended (p poll ticks, or p callbacks each followed by a flush tick)
Produced(p) == [i \in 1..p |-> [time |-> 0, voltage |-> Volt(i)]]

InitWindow ==
  \E p \in {0} \cup ((WindowCap - Lead)..WindowCap) :
    /\ status = ACQUIRING
    /\ ecgData = Produced(p)
    /\ total = p
    /\ countdown = NoCountdown
    /\ timerRef = 1
    /\ startupTimerRef = 1
    /\ countdownIntervalRef = NoTimer
    /\ incomingDataBuffer = <<>>
    /\ runs = 1
    /\ now = 0
    /\ cancelled = "no"
    /\ \/ /\ isBluetoothConnected = FALSE
          /\ timers = {Timer("acq", 1, FALSE, 0, DefaultBpm)}
          /\ simActive = TRUE
          /\ simStartTime = 0
          /\ simBpm = DefaultBpm
          /\ InitLink
       \/ /\ isBluetoothConnected = TRUE
          /\ timers = {Timer("acq", 1, TRUE, 0, DefaultBpm)}
          /\ InitSim
          /\ StreamingLink
    /\ NoInput
    /\ InitOther

\* the stream callback of handleStart, called with one voltage
StreamCallback(v, limit) ==
  /\ onDataCallback
  /\ total < limit
  /\ Len(incomingDataBuffer) < MaxBatch
  /\ incomingDataBuffer' = PushAll(incomingDataBuffer, <<v>>)
  /\ total' = total + 1
  /\ UNCHANGED <<status, ecgData, countdown, isBluetoothConnected, timerRef,
                 startupTimerRef, countdownIntervalRef, timerVars, simVars,
                 linkVars, now, cancelled, inputVars, otherVars>>

NextWindow ==
  \/ \E t \in timers : PollTick(t, Volt(total + 1), WindowCap + MaxOver)
  \/ \E t \in timers : FlushTick(t)
  \/ StreamCallback(Volt(total + 1), WindowCap + MaxOver)

SpecWindow == InitWindow /\ [][NextWindow]_vars

(***************************************************************************)
(* The source specification: the session with the simulated heart rate     *)
(* slider of the settings panel.                                           *)
(***************************************************************************)
\* <input type="range" min="40" max="180">
SliderMin == 40
SliderMax == 180

\* the values the slider is moved to
SliderValues == {SliderMin, DefaultBpm, SliderMax}

\* the panel is rendered when showSettings && !isBluetoothConnected, and the
\* button that shows it is enabled when !isBluetoothConnected
SettingsPanelShown == ~isBluetoothConnected

\* onChange of the slider: setTargetBpm(val); simulatorRef.current.setBPM(val)
SetTargetBpm(val) ==
  /\ SettingsPanelShown
  /\ val # targetBpm
  /\ targetBpm' = val
  /\ simBpm' = val
  /\ UNCHANGED <<appVars, timerVars, simActive, simStartTime, linkVars,
                 envVars, inputVars, btError, reportVars, synthVars>>

NextSource ==
  \/ HandleStart
  \/ HandleStop
  \/ HandleReset
  \/ \E t \in timers : CountdownTick(t)
  \/ \E t \in timers : StartupTimeout(t)
  \/ \E t \in timers : PollTick(t, SimVoltage, MaxSamples)
  \/ \E val \in SliderValues : SetTargetBpm(val)
  \/ HandleBluetoothConnect
  \/ ConnectDone
  \/ HandleBluetoothDisconnect

SpecSource == Init /\ [][NextSource]_vars

(***************************************************************************)
(* The clock specification: the session with Date.now() moving on.         *)
(***************************************************************************)
\* the clock advances by one unit; it never goes back
Tick ==
  /\ now < MaxNow
  /\ now' = now + 1
  /\ UNCHANGED <<appVars, timerVars, simVars, linkVars, total, cancelled,
                 inputVars, otherVars>>

NextClock ==
  \/ HandleStart
  \/ HandleStop
  \/ HandleReset
  \/ \E t \in timers : StartupTimeout(t)
  \/ \E t \in timers : FlushTick(t)
  \/ \E t \in timers : PollTick(t, SimVoltage, MaxTimed)
  \/ NotificationEvent(<<"1", NL>>, MaxTimed) /\ UNCHANGED inputVars
  \/ GattStartOk
  \/ HandleBluetoothConnect
  \/ ConnectDone
  \/ HandleBluetoothDisconnect
  \/ Tick

SpecClock == Init /\ [][NextClock]_vars

(***************************************************************************)
(* analyzeECGSegment (geminiService.ts) and handleAnalyze.                 *)
(***************************************************************************)
\* if (ecgData.length < 100): not enough data to analyze
MinPoints == 100
\* sampledData = dataPoints.filter((_, i) => i % 2 === 0).slice(-200)
SampledMax == 200
\* hrv: 45 in the fallback report
FallbackHrv == 45
\* setBpm(prev => prev === 0 ? 70 : prev)
PlaceholderBpm == 70

\* what generateContent does: it rejects, or it resolves with a response
\* whose text is missing, is no JSON, or is the JSON of a report
NoText == "undefined"
NotJson == "not json"
ReportText == "report json"
Responses ==
  {[rejected |-> TRUE, text |-> NoText]}
    \cup {[rejected |-> FALSE, text |-> t] : t \in {NoText, NotJson, ReportText}}

\* the report the service sends
ServiceReport ==
  [heartRate |-> PlaceholderBpm, hrv |-> FallbackHrv + 1, status |-> "Irregular",
   confidence |-> MinPoints, recommendation |-> "rest",
   detailedAnalysis |-> "irregular R-R"]

SyntaxError == [error |-> "SyntaxError"]

\* JSON.parse(text)
JsonParse(text) == IF text = ReportText THEN ServiceReport ELSE SyntaxError

\* dataPoints.filter((_, i) => i % 2 === 0).slice(-200)
SampledData(dataPoints) ==
  LET kept == [i \in 1..((Len(dataPoints) + 1) \div 2) |-> dataPoints[2 * i - 1]]
  IN  IF Len(kept) > SampledMax THEN LastN(kept, SampledMax) ELSE kept

\* the fallback of the catch, with the default rate for the supplied one
FallbackReportDefaultRate(averageBPM) ==
  [heartRate |-> DefaultBpm, hrv |-> FallbackHrv, status |-> "Normal",
   confidence |-> 0, recommendation |-> "Analysis failed. Please try again.",
   detailedAnalysis |->
     "Could not connect to AI service. Ensure API Key is valid."]

\* the fallback of the catch
FallbackReport(averageBPM) ==
  [heartRate |-> averageBPM, hrv |-> FallbackHrv, status |-> "Normal",
   confidence |-> 0, recommendation |-> "Analysis failed. Please try again.",
   detailedAnalysis |->
     "Could not connect to AI service. Ensure API Key is valid."]

\* what analyzeECGSegment resolves with, given what generateContent does
AnalyzeECGSegment(dataPoints, averageBPM, response) ==
  IF response.rejected \/ response.text = NoText
       \/ JsonParse(response.text) = SyntaxError
    THEN FallbackReport(averageBPM)
    ELSE JsonParse(response.text)

\* disabled={ecgData.length === 0 || isAnalyzing || status === CONNECTING}
AnalyzeButtonEnabled == ecgData # <<>> /\ ~isAnalyzing /\ status # CONNECTING

\* handleAnalyze up to its await, when the browser is online (offline, and
\* with fewer than 100 samples, it alerts and returns)
HandleAnalyze ==
  /\ AnalyzeButtonEnabled
  /\ Len(ecgData) >= MinPoints
  /\ isAnalyzing' = TRUE
  /\ analysisRequest' =
       [dataPoints |-> SampledData(Voltages(ecgData)),
        averageBPM |-> IF bpm = 0 THEN DefaultBpm ELSE bpm]
  /\ UNCHANGED <<appVars, timerVars, simVars, linkVars, envVars, inputVars,
                 btError, targetBpm, bpm, analysis, synthVars>>

\* handleAnalyze after its await: the service did `response`
AnalyzeDone(response) ==
  /\ analysisRequest # NoRequest
  /\ LET result == AnalyzeECGSegment(analysisRequest.dataPoints,
                                     analysisRequest.averageBPM, response)
     IN  analysis' = result
  /\ isAnalyzing' = FALSE
  /\ analysisRequest' = NoRequest
  /\ UNCHANGED <<appVars, timerVars, simVars, linkVars, envVars, inputVars,
                 btError, targetBpm, bpm, synthVars>>

\* the interval of the rate display, every 2000 ms while ACQUIRING:
\* setBpm(targetBpm + Math.floor(Math.random() * 4 - 2)), or the placeholder
\* when the sensor is connected
BpmTick(jitter) ==
  /\ status = ACQUIRING
  /\ bpm' = IF ~isBluetoothConnected THEN targetBpm + jitter
            ELSE IF bpm = 0 THEN PlaceholderBpm ELSE bpm
  /\ UNCHANGED <<appVars, timerVars, simVars, linkVars, envVars, inputVars,
                 btError, targetBpm, analysis, isAnalyzing, analysisRequest,
                 synthVars>>

\* a synthetic run that has appended p samples, for p around MinPoints
InitAnalysis ==
  \E p \in (MinPoints - Lead)..MinPoints :
    /\ status = ACQUIRING
    /\ ecgData = Produced(p)
    /\ total = p
    /\ countdown = NoCountdown
    /\ isBluetoothConnected = FALSE
    /\ timerRef = 1
    /\ startupTimerRef = 1
    /\ countdownIntervalRef = NoTimer
    /\ incomingDataBuffer = <<>>
    /\ timers = {Timer("acq", 1, FALSE, 0, DefaultBpm)}
    /\ runs = 1
    /\ simActive = TRUE
    /\ simStartTime = 0
    /\ simBpm = DefaultBpm
    /\ InitLink
    /\ now = 0
    /\ cancelled = "no"
    /\ NoInput
    /\ InitOther

NextAnalysis ==
  \/ \E t \in timers : PollTick(t, Volt(total + 1), MinPoints + MaxOver)
  \/ \E jitter \in (0 - 2)..1 : BpmTick(jitter)
  \/ HandleStop
  \/ HandleReset
  \/ HandleStart
  \/ \E t \in timers : StartupTimeout(t)
  \/ HandleAnalyze
  \/ \E response \in Responses : AnalyzeDone(response)

SpecAnalysis == InitAnalysis /\ [][NextAnalysis]_vars

(***************************************************************************)
(* generateECGSignal and ECGSimulator (ecgSimulator.ts).                   *)
(*                                                                         *)
(* A number is an exact fraction [num, den], den > 0 and num, den coprime; *)
(* den = 0 is Infinity.  Math.exp and Math.sin are not computed: a voltage *)
(* is the record [t, drift, noise] of the beat phase t the five Gaussians  *)
(* are taken at, the angle the drift's sine is taken at, and the noise     *)
(* term, and stands for                                                    *)
(*   P(t) + Q(t) + R(t) + S(t) + T(t) + noise + 0.05 * sin(drift).         *)
(* Equal records are equal voltages.  Two records that differ only in the  *)
(* drift angle, both angles in [0, pi/2), are different voltages, since    *)
(* the sine is strictly increasing there; the times of the model, a beat   *)
(* included, stay below 2000 * pi/2 = 3141 ms.                             *)
(***************************************************************************)
\* const beatDuration = 60000 / bpm
MsPerMinute == 60000
\* Math.sin(timeMs / 2000)
DriftMs == 2000
\* bpm: number = 60, the default of generateECGSignal
DefaultSignalBpm == 60

Abs(n) == IF n < 0 THEN 0 - n ELSE n

RECURSIVE Gcd(_, _)
Gcd(a, b) == IF b = 0 THEN a ELSE Gcd(b, a % b)

\* the fraction num / den in lowest terms, den # 0
Frac(num, den) ==
  LET g == Gcd(Abs(num), Abs(den))
      s == IF den < 0 THEN 0 - 1 ELSE 1
  IN  [num |-> s * (num \div g), den |-> s * (den \div g)]

Infinity == [num |-> 1, den |-> 0]

\* a / b for a finite a: Infinity when b is 0 (a > 0), 0 when b is Infinity
JsDiv(a, b) ==
  IF b.den = 0 THEN Frac(0, 1)
  ELSE IF b.num = 0 THEN Infinity
  ELSE Frac(a.num * b.den, a.den * b.num)

\* a % b for a finite a and b # 0: a when b is Infinity, else the remainder
\* of the truncated division, with the sign of a
JsRem(a, b) ==
  IF b.den = 0 THEN a
  ELSE LET x == Abs(a.num) * b.den
           y == Abs(b.num) * a.den
           r == x % y
       IN  Frac(IF a.num < 0 THEN 0 - r ELSE r, a.den * b.den)

Plus(a, b) == Frac(a.num * b.den + b.num * a.den, a.den * b.den)

Times(a, b) == Frac(a.num * b.num, a.den * b.den)

\* noiseLevel: number = 0.05, the default of generateECGSignal
DefaultNoise == Frac(1, 20)

\* generateECGSignal with the phase taken without the remainder
GenerateECGSignalNoWrap(timeMs, rate, noiseLevel, random) ==
  LET beatDuration == JsDiv(Frac(MsPerMinute, 1), Frac(rate, 1))
      t     == JsDiv(timeMs, beatDuration)
      noise == Times(Plus(random, Frac(0 - 1, 2)), noiseLevel)
      drift == JsDiv(timeMs, Frac(DriftMs, 1))
  IN  [t |-> t, drift |-> drift, noise |-> noise]

\* generateECGSignal(timeMs, bpm, noiseLevel), rate being its bpm and random
\* what Math.random() returns
GenerateECGSignal(timeMs, rate, noiseLevel, random) ==
  LET beatDuration == JsDiv(Frac(MsPerMinute, 1), Frac(rate, 1))
      t     == JsDiv(JsRem(timeMs, beatDuration), beatDuration)
      noise == Times(Plus(random, Frac(0 - 1, 2)), noiseLevel)
      drift == JsDiv(timeMs, Frac(DriftMs, 1))
  IN  [t |-> t, drift |-> drift, noise |-> noise]

\* the error a call with an invalid parameter would give
InvalidParameter == [error |-> "InvalidParameter"]

\* getDataPoint() returns null
NullPoint == [null |-> TRUE]

(***************************************************************************)
(* The synthesizer specification: generateECGSignal and the methods of an  *)
(* ECGSimulator are called with arguments from small sets.                 *)
(***************************************************************************)
SynthTimes == {Frac(x, 1) : x \in 0..MaxTime}
SynthBpms == {0 - DefaultSignalBpm, 0, SliderMin, DefaultSignalBpm, DefaultBpm}
NoiseLevels == {Frac(0, 1), DefaultNoise}
\* Math.random(): in [0, 1)
RandomDraws == {Frac(0, 1), Frac(1, 2)}

CallGenerate(timeMs, b, noiseLevel, random) ==
  /\ synthCall' = [timeMs |-> timeMs, bpm |-> b, noiseLevel |-> noiseLevel]
  /\ synthOut' = GenerateECGSignal(timeMs, b, noiseLevel, random)
  /\ UNCHANGED <<appVars, timerVars, simVars, linkVars, envVars, inputVars,
                 btError, targetBpm, reportVars>>

\* ECGSimulator.setBPM(b)
SimSetBPM(b) ==
  /\ simBpm' = b
  /\ UNCHANGED <<appVars, timerVars, simActive, simStartTime, linkVars,
                 envVars, inputVars, otherVars>>

\* ECGSimulator.start()
SimStart ==
  /\ simActive' = TRUE
  /\ simStartTime' = now
  /\ UNCHANGED <<appVars, timerVars, simBpm, linkVars, envVars, inputVars,
                 otherVars>>

\* ECGSimulator.stop()
SimStop ==
  /\ simActive' = FALSE
  /\ UNCHANGED <<appVars, timerVars, simStartTime, simBpm, linkVars, envVars,
                 inputVars, otherVars>>

\* getDataPoint() with time: now, the clock reading, for the elapsed time
SimGetDataPointAbsolute(random) ==
  /\ IF ~simActive
       THEN /\ synthCall' = NoCall
            /\ synthOut' = NullPoint
       ELSE LET voltage == GenerateECGSignal(Frac(now, 1), simBpm,
                                             DefaultNoise, random)
            IN  /\ synthCall' = [timeMs |-> Frac(now, 1),
                                 bpm |-> simBpm, noiseLevel |-> DefaultNoise]
                /\ synthOut' = [time |-> now, voltage |-> voltage]
  /\ UNCHANGED <<appVars, timerVars, simVars, linkVars, envVars, inputVars,
                 btError, targetBpm, reportVars>>

\* ECGSimulator.getDataPoint()
SimGetDataPoint(random) ==
  /\ IF ~simActive
       THEN /\ synthCall' = NoCall
            /\ synthOut' = NullPoint
       ELSE LET elapsedTime == now - simStartTime
                voltage == GenerateECGSignal(Frac(elapsedTime, 1), simBpm,
                                             DefaultNoise, random)
            IN  /\ synthCall' = [timeMs |-> Frac(elapsedTime, 1),
                                 bpm |-> simBpm, noiseLevel |-> DefaultNoise]
                /\ synthOut' = [time |-> elapsedTime, voltage |-> voltage]
  /\ UNCHANGED <<appVars, timerVars, simVars, linkVars, envVars, inputVars,
                 btError, targetBpm, reportVars>>

NextSynth ==
  \/ \E timeMs \in SynthTimes, b \in SynthBpms, noiseLevel \in NoiseLevels,
        random \in RandomDraws : CallGenerate(timeMs, b, noiseLevel, random)
  \/ \E b \in SynthBpms : SimSetBPM(b)
  \/ SimStart
  \/ SimStop
  \/ \E random \in RandomDraws : SimGetDataPoint(random)
  \/ Tick

SpecSynth == Init /\ [][NextSynth]_vars

(***************************************************************************)
(* The cycles specification: runs started and stopped one after the other  *)
(* on one link connection, the device sending one record per notification. *)
(***************************************************************************)
NextCycles ==
  \/ HandleStart
  \/ HandleStop
  \/ \E t \in timers : StartupTimeout(t)
  \/ \E t \in timers : FlushTick(t)
  \/ NotificationEvent(<<"1", NL>>, MaxTimed) /\ UNCHANGED inputVars
  \/ GattStartOk
  \/ \E resolved \in BOOLEAN : GattStop(resolved)
  \/ HandleBluetoothConnect
  \/ ConnectDone

SpecCycles == Init /\ [][NextCycles]_vars

(***************************************************************************)
(* The teardown specification: the session up to the unmount of the        *)
(* component.  An unmounted component renders no control and React drops   *)
(* its state updates, so the behaviours end with the cleanup.              *)
(***************************************************************************)
Mounted == cancelled # "unmount"

\* BluetoothService.isConnected()
IsConnected == device /\ gattConnected

\* the cleanup of the effect with no dependencies: the startup timeout and
\* the countdown interval that the refs hold are cleared, and the link is
\* released when it is connected
Unmount ==
  /\ Mounted
  /\ cancelled' = "unmount"
  /\ timers' = Cleared(Cleared(timers, "startup", startupTimerRef),
                       "countdown", countdownIntervalRef)
  /\ IF IsConnected
       THEN /\ gattConnected' = FALSE
            /\ device' = FALSE
            /\ characteristic' = FALSE
            /\ listeners' = 0
            /\ notifying' = FALSE
            /\ gattQueue' = Doomed(gattQueue)
       ELSE UNCHANGED <<gattConnected, device, characteristic, listeners,
                        notifying, gattQueue>>
  /\ UNCHANGED <<appVars, runs, simVars, onDataCallback, dataBuffer,
                 connectPc, now, total, inputVars, otherVars>>

NextTeardown ==
  \/ Mounted /\ HandleStart
  \/ Mounted /\ HandleStop
  \/ Mounted /\ HandleReset
  \/ Mounted /\ \E t \in timers : CountdownTick(t)
  \/ Mounted /\ \E t \in timers : StartupTimeout(t)
  \/ Mounted /\ \E t \in timers : PollTick(t, SimVoltage, MaxSamples)
  \/ Mounted /\ HandleBluetoothConnect
  \/ Mounted /\ ConnectDone
  \/ Mounted /\ HandleBluetoothDisconnect
  \/ Unmount

SpecTeardown == Init /\ [][NextTeardown]_vars

(***************************************************************************)
(* Claims.                                                                 *)
(***************************************************************************)
\* samples appended to the window so far in the window specification:
\* those produced and no longer pending
Appended == total - Len(incomingDataBuffer)

\* C1: after any sequence of poll and flush ticks the window holds at most
\* WindowCap samples; it holds all the samples appended while they are no
\* more than WindowCap, and after that exactly the last WindowCap appended,
\* oldest first.
C1_WindowHoldsLastAppended ==
  /\ Len(ecgData) <= WindowCap
  /\ Len(ecgData) = IF Appended > WindowCap THEN WindowCap ELSE Appended
  /\ \A i \in 1..Len(ecgData) :
       ecgData[i].voltage = Volt(Appended - Len(ecgData) + i)

\* more than WindowCap samples were appended, the last ones by a flush of a
\* whole batch
C1_Witness ==
  /\ Appended > WindowCap + 1
  /\ Len(ecgData) = WindowCap
  /\ isBluetoothConnected
  /\ incomingDataBuffer = <<>>

\* the whole text delivered so far, given as a single chunk to a reassembler
\* whose carry-over buffer is empty
OneChunk(text) == HandleNotifications(<<>>, Encode(text), TRUE)

RECURSIVE Scan(_, _, _)
Scan(text, records, fragment) ==
  IF text = <<>> THEN [records |-> records, fragment |-> fragment]
  ELSE IF Head(text) = NL THEN Scan(Tail(text), Append(records, fragment), <<>>)
  ELSE Scan(Tail(text), records, Append(fragment, Head(text)))

RecordsOf(text) == Scan(text, <<>>, <<>>).records
FragmentOf(text) == Scan(text, <<>>, <<>>).fragment

\* t is a decimal number: an optional sign, digits with at most one point,
\* one digit at least
WellFormed(t) ==
  LET body == IF t # <<>> /\ Head(t) \in {"-", "+"} THEN Tail(t) ELSE t
  IN  /\ \A i \in 1..Len(body) : body[i] \in DigitChars \cup {"."}
      /\ Cardinality({i \in 1..Len(body) : body[i] = "."}) <= 1
      /\ \E i \in 1..Len(body) : body[i] \in DigitChars

\* the value of a well-formed t
DecimalValue(t) ==
  LET neg    == Head(t) = "-"
      body   == IF Head(t) \in {"-", "+"} THEN Tail(t) ELSE t
      points == {i \in 1..Len(body) : body[i] = "."}
      digits == SelectSeq(body, LAMBDA c : c # ".")
      frac   == IF points = {} THEN 0
                ELSE Len(body) - (CHOOSE i \in points : TRUE)
      mag    == DigitsValue(digits)
  IN  Normalize(IF neg THEN 0 - mag ELSE mag, frac)

RECURSIVE WellFormedValues(_)
WellFormedValues(records) ==
  IF records = <<>> THEN <<>>
  ELSE (IF WellFormed(Trim(Head(records)))
          THEN <<DecimalValue(Trim(Head(records)))>> ELSE <<>>)
         \o WellFormedValues(Tail(records))

Malformed(text) ==
  {i \in 1..Len(RecordsOf(text)) : ~WellFormed(Trim(RecordsOf(text)[i]))}

\* C3: when exactly one record delivered so far is malformed, the voltages
\* delivered are those of the well-formed records, in order, nothing is
\* delivered for the malformed one, and the carry-over buffer is the
\* unterminated fragment.
C3_MalformedRecordDropped ==
  Cardinality(Malformed(fed)) = 1 =>
    /\ Voltages(incomingDataBuffer) = WellFormedValues(RecordsOf(fed))
    /\ dataBuffer = FragmentOf(fed)

\* C3 for the malformed records in which parseFloat finds no number
C3_UnparsableRecordDropped ==
  (/\ Cardinality(Malformed(fed)) = 1
   /\ \A i \in Malformed(fed) : IsNaN(ParseFloat(Trim(RecordsOf(fed)[i])))) =>
    /\ Voltages(incomingDataBuffer) = WellFormedValues(RecordsOf(fed))
    /\ dataBuffer = FragmentOf(fed)

\* the value parseFloat gives each record that is not empty once trimmed
\* and in which it finds a number
RECURSIVE ParsedValues(_)
ParsedValues(records) ==
  IF records = <<>> THEN <<>>
  ELSE (IF Trim(Head(records)) # <<>> /\ ~IsNaN(ParseFloat(Trim(Head(records))))
          THEN <<ParseFloat(Trim(Head(records)))>> ELSE <<>>)
         \o ParsedValues(Tail(records))

\* "1.0\n2.0\n3."
ScenarioFirstChunk == SubSeq(ScenarioText, 1, 10)

\* C4: after every ingest the carry-over buffer is the text after the last
\* newline delivered, and the voltages delivered are those of the records
\* ended so far, each parsed whole: a fragment is not delivered before its
\* newline arrives and is then parsed joined with its continuation.  Chunks
\* "1.0\n2.0\n3." and "5\n4.0\n" deliver 1.0, 2.0 and then 3.5, 4.0.
C4_FragmentCarriedOver ==
  /\ dataBuffer = FragmentOf(fed)
  /\ Voltages(incomingDataBuffer) = ParsedValues(RecordsOf(fed))
  /\ fed = ScenarioFirstChunk =>
       /\ Voltages(incomingDataBuffer) = <<Volt(1), Volt(2)>>
       /\ dataBuffer = <<"3", ".">>
  /\ fed = ScenarioText =>
       Voltages(incomingDataBuffer) =
         <<Volt(1), Volt(2), [num |-> 35, scale |-> 1], Volt(4)>>

\* the scenario was delivered with a chunk boundary after "3."
C4_Witness ==
  /\ fed = ScenarioText
  /\ splitAt = Len(ScenarioFirstChunk)
  /\ Len(incomingDataBuffer) = 4

C6_WindowFrozenAfterCancel ==
  [][(cancelled # "no" /\ cancelled' = cancelled) =>
       \/ ecgData' = ecgData
       \/ cancelled' = "reset" /\ ecgData' = <<>>]_vars

\* C7: at most one acquisition interval is set, only while ACQUIRING, and
\* timerRef holds it; at most one startup timeout is pending and
\* startupTimerRef holds it.
C7_TimersOwned ==
  /\ Cardinality(OfKind("acq")) <= 1
  /\ OfKind("acq") # {} => status = ACQUIRING
  /\ \A t \in OfKind("acq") : t.run = timerRef
  /\ Cardinality(OfKind("startup")) <= 1
  /\ \A t \in OfKind("startup") : t.run = startupTimerRef

\* C8: while the status is CONNECTING the window and the pending queue are
\* empty (handleStart empties them and nothing is added before ACQUIRING).
C8_NothingBufferedInCountdown ==
  status = CONNECTING => ecgData = <<>> /\ incomingDataBuffer = <<>>

\* C9: no notification handler is attached outside an external run.  Stated
\* for the states where the removal asked by handleStop has had its time:
\* the link is up, stopNotifications has resolved (the device does not
\* notify, no GATT call is pending) and the status is not ACQUIRING.
C9_HandlerDetachedAfterStop ==
  (/\ gattConnected /\ ~notifying
   /\ gattQueue = <<>>
   /\ status # ACQUIRING) => listeners = 0

\* C10: the step that makes the session stopped leaves the window as it is
\* and gives status CONNECTED, and every later step up to the next
\* handleStart or handleReset leaves the window as it is.
C10_StoppedWindowKept ==
  [][cancelled' = "stop" =>
       /\ ecgData' = ecgData
       /\ cancelled # "stop" => status' = CONNECTED]_vars

\* the run that timerRef holds is an external one
ExternalRunBound == \E t \in OfKind("acq") : t.run = timerRef /\ t.bt

\* a startNotifications call has not settled yet
StartPending == \E i \in DOMAIN gattQueue : gattQueue[i].op = "start"

\* C11: a link failure during an external run stops the session.  When the
\* stream subscription is rejected the session gets status CONNECTED, its
\* acquisition interval is cleared and the error "Stream failed" is shown;
\* and the status is never ACQUIRING on an external run whose link is down,
\* unless the rejection of its subscription is still to come.
C11_StopOnLinkFailure ==
  /\ [][GattStartFail =>
         (status' = CONNECTED /\ timerRef' = NoTimer /\ btError' = StreamFailed)]_vars
  /\ []((status = ACQUIRING /\ ExternalRunBound /\ ~StartPending)
         => gattConnected)

\* C12: handleReset ends with the session idle (status DISCONNECTED, or
\* CONNECTED when the sensor is connected; no countdown), the window empty,
\* no session timer left (acquisition interval, startup timeout, countdown
\* interval) and the simulator stopped.
C12_ResetClearsSession ==
  [][HandleReset =>
       /\ status' \in {DISCONNECTED, CONNECTED}
       /\ countdown' = NoCountdown
       /\ ecgData' = <<>>
       /\ timers' = {}
       /\ ~simActive']_vars

\* C13: while the status stays ACQUIRING the source of the run does not
\* change: the rate the simulator uses stays the one set at the startup
\* timeout, and the run that timerRef holds stays external or synthetic.
C13_SourceConfigFixed ==
  [][(status = ACQUIRING /\ status' = ACQUIRING) =>
       /\ simBpm' = simBpm
       /\ ExternalRunBound' = ExternalRunBound]_vars

\* C14: in every state the times of the samples in the window do not
\* decrease from oldest to newest (so neither do those of the last 300 the
\* chart shows).
C14_TimesNonDecreasing ==
  \A i \in 1..(Len(ecgData) - 1) : ecgData[i].time <= ecgData[i + 1].time

\* the voltages the stream callback was called with so far in the window
\* specification, in order
DeliveredVoltages == [i \in 1..total |-> Volt(i)]

ConnectFailedStep ==
  connectPc = "pending" /\ connectPc' = "idle" /\ ~isBluetoothConnected'

\* C16: a failed connect() leaves the session as it is (status, countdown,
\* window, timers and runs: no countdown or acquisition starts or ends
\* because of it), isBluetoothConnected is false after it, and no connect()
\* is in flight after it: only a click on the sensor button
\* (handleBluetoothConnect) starts another attempt.
C16_ConnectFailureLeavesSession ==
  /\ [][ConnectFailedStep =>
          /\ status' = status
          /\ countdown' = countdown
          /\ ecgData' = ecgData
          /\ timers' = timers
          /\ runs' = runs
          /\ isBluetoothConnected' = FALSE
          /\ connectPc' = "idle"]_vars
  /\ [][(connectPc = "idle" /\ connectPc' = "pending") =>
          (BluetoothButtonEnabled /\ btError' = NoError)]_vars

\* connect() failed at the service lookup while a run was acquiring, and
\* the run goes on
C16_Witness ==
  /\ connectPc = "idle"
  /\ btError = ConnectFailed
  /\ device /\ gattConnected /\ ~characteristic
  /\ ~isBluetoothConnected
  /\ status = ACQUIRING
  /\ ecgData # <<>>

\* the service call failed: it rejected, or its text is missing or no JSON
FailedResponses ==
  {r \in Responses : r.rejected \/ r.text \in {NoText, NotJson}}

\* C17: when the call to the interpretation service rejects, returns no
\* text or returns text that is no JSON, analyzeECGSegment resolves with the
\* fallback report (heartRate the average rate it was given, confidence 0,
\* status Normal), handleAnalyze installs it, and the step changes neither
\* the status nor the window nor any timer.
C17_AnalysisFailureIsFallback ==
  [][\A r \in FailedResponses :
       AnalyzeDone(r) =>
         /\ analysis'.heartRate = analysisRequest.averageBPM
         /\ analysis'.confidence = 0
         /\ analysis'.status = "Normal"
         /\ ~isAnalyzing'
         /\ status' = status
         /\ ecgData' = ecgData
         /\ timers' = timers]_vars

\* the fallback report is shown for an analysis asked with a rate estimate
\* that is not the default one, while the run goes on
C17_Witness ==
  /\ analysis # NoReport
  /\ analysis.confidence = 0
  /\ analysis.heartRate # DefaultBpm
  /\ ~isAnalyzing
  /\ status = ACQUIRING
  /\ Len(ecgData) >= MinPoints

\* one beat at the rate of the last call: 60000 / bpm ms
BeatOfCall == JsDiv(Frac(MsPerMinute, 1), Frac(synthCall.bpm, 1))

\* C18 as stated: with no noise and bpm > 0, generateECGSignal returns at
\* timeMs + 60000 / bpm what it returned at timeMs.
C18_PeriodicWithoutNoise ==
  (/\ synthCall # NoCall
   /\ synthCall.bpm > 0
   /\ synthCall.noiseLevel = Frac(0, 1)) =>
    \A random \in RandomDraws :
      GenerateECGSignal(Plus(synthCall.timeMs, BeatOfCall), synthCall.bpm,
                        synthCall.noiseLevel, random) = synthOut

\* C18: with no noise and bpm > 0, one beat later the beat phase, and so the
\* sum of the five waves, is the same and the noise is 0 both times, while
\* the baseline drift is taken at an angle 60000 / bpm / 2000 larger: the
\* voltage is periodic up to the drift only.
C18_WavePeriodicDriftNot ==
  (/\ synthCall # NoCall
   /\ synthCall.bpm > 0
   /\ synthCall.noiseLevel = Frac(0, 1)) =>
    \A random \in RandomDraws :
      LET later == GenerateECGSignal(Plus(synthCall.timeMs, BeatOfCall),
                                     synthCall.bpm, synthCall.noiseLevel,
                                     random)
      IN  /\ later.t = synthOut.t
          /\ later.noise = synthOut.noise
          /\ later.noise = Frac(0, 1)
          /\ later.drift = Plus(synthOut.drift,
                                JsDiv(BeatOfCall, Frac(DriftMs, 1)))
          /\ later.drift # synthOut.drift

\* a noiseless call inside a beat whose length in ms is not an integer
C18_Witness ==
  /\ synthCall # NoCall
  /\ synthCall.bpm = DefaultBpm
  /\ synthCall.noiseLevel = Frac(0, 1)
  /\ synthCall.timeMs.num > 0
  /\ synthOut.t.num > 0
  /\ BeatOfCall.den > 1

\* C19: a call of generateECGSignal with bpm <= 0, directly or by
\* getDataPoint after setBPM, gives InvalidParameter and no voltage.
C19_InvalidRateRejected ==
  (synthCall # NoCall /\ synthCall.bpm <= 0) => synthOut = InvalidParameter

\* C20: from the countdown, as long as no handleStop or handleReset runs,
\* the status only goes to ACQUIRING; no other step, the completion of a
\* pending connect() included, takes the session out of the countdown.
C20_CountdownOnlyToAcquiring ==
  [][(status = CONNECTING /\ cancelled' = "no") =>
       status' \in {CONNECTING, ACQUIRING}]_vars

\* the samples of the window that the simulator poll appended: in the session
\* specifications the simulator gives SimVoltage and the device sends 1
FromSimulator == {i \in DOMAIN ecgData : ecgData[i].voltage = SimVoltage}

FromLink == {i \in DOMAIN ecgData : ecgData[i].voltage # SimVoltage}

\* C21: during a run (status ACQUIRING) the samples of the window come all
\* from the simulator poll or all from the flush of the pending queue, and
\* the simulator is not active while the run that timerRef holds is an
\* external one.
C21_SingleSource ==
  status = ACQUIRING =>
    /\ FromSimulator = {} \/ FromLink = {}
    /\ ExternalRunBound => ~simActive

\* what one call of handleNotifications on the chunk hands to the callback
IngestedOnce(chunkText) ==
  HandleNotifications(dataBuffer, Encode(chunkText), TRUE).out

\* C22: in every run on one link connection, the first or a later one, a
\* notification delivered while ACQUIRING is ingested once: the pending
\* queue grows by one sample per well-formed record the chunk completes.
C22_ChunkIngestedOnce ==
  [][(/\ status = ACQUIRING
      /\ onDataCallback
      /\ NotificationEvent(<<"1", NL>>, MaxTimed)) =>
       incomingDataBuffer' =
         PushAll(incomingDataBuffer, IngestedOnce(<<"1", NL>>))]_vars

\* the acquisition interval of the run started last appends to the window
AppendByCurrentRun ==
  \E t \in OfKind("acq") :
    /\ t.run = runs
    /\ FlushTick(t) \/ PollTick(t, SimVoltage, MaxSamples)

\* C23: handleStart empties the window, the pending queue and the report;
\* after it the window holds samples of that run only: samples are appended
\* to the window by the acquisition interval of the run started last and by
\* nothing else, and from handleStart to the next handleStop or handleReset
\* samples are pushed into the pending queue only while that run is
\* acquiring.
C23_WindowOfOneRun ==
  /\ [][HandleStart =>
         (ecgData' = <<>> /\ incomingDataBuffer' = <<>> /\ analysis' = NoReport)]_vars
  /\ [][(ecgData' # ecgData /\ ecgData' # <<>>) => AppendByCurrentRun]_vars
  /\ [][(/\ cancelled = "no"
          /\ incomingDataBuffer' # incomingDataBuffer
          /\ incomingDataBuffer' # <<>>) =>
         (status = ACQUIRING /\ timerRef = runs)]_vars

\* C24: getDataPoint() returns null when the simulator is not active, which
\* it is not before the first start() and after every stop(); when active
\* it returns a sample whose time is the clock reading less the time origin,
\* and the origin is set to the clock reading by every start() and moved by
\* nothing else, a stop() included.
C24_ElapsedSinceLastStart ==
  /\ ~simActive
  /\ [][SimStart => (simActive' /\ simStartTime' = now)]_vars
  /\ [][SimStop => ~simActive']_vars
  /\ [][simActive' # simActive => (SimStart \/ SimStop)]_vars
  /\ [][simStartTime' # simStartTime => SimStart]_vars
  /\ [][\A random \in RandomDraws :
          SimGetDataPoint(random) =>
            IF simActive
              THEN /\ synthOut' # NullPoint
                   /\ synthOut'.time = now - simStartTime
              ELSE synthOut' = NullPoint]_vars

\* a sample returned some time after a start() that moved the origin off
\* the one the constructor set
C24_Witness ==
  /\ simActive
  /\ simStartTime > 0
  /\ "time" \in DOMAIN synthOut
  /\ synthOut.time = now - simStartTime
  /\ synthOut.time > 0

\* C25: the unmount cleanup leaves no session timer set, whatever the state
\* of the session: no countdown interval, no startup timeout and no
\* acquisition interval, so that no tick can fire afterwards.
C25_TeardownCancelsTimers ==
  [][Unmount => timers' = {}]_vars

\* the window holds every sample the request in flight was made from
RequestFromWindow ==
  \A i \in DOMAIN analysisRequest.dataPoints :
    \E j \in DOMAIN ecgData : ecgData[j].voltage = analysisRequest.dataPoints[i]

\* C26: a report is installed only when it was computed from samples the
\* window still holds: the result of a request that was in flight when
\* handleStart or handleReset emptied the window is not installed.
C26_ReportOfCurrentWindow ==
  [][\A response \in Responses :
       AnalyzeDone(response) => RequestFromWindow]_vars

\* C27: when an external run enters ACQUIRING the carry-over buffer of the
\* reassembler is empty: no fragment of an earlier run or of an earlier
\* connection is left to be put before the first record of the run.
C27_CarryOverEmptyAtRunStart ==
  [][(status # ACQUIRING /\ status' = ACQUIRING /\ ExternalRunBound') =>
       dataBuffer' = <<>>]_vars

\* C28: the countdown is shown exactly while the status is CONNECTING; its
\* value lies in 0..5, is 5 after handleStart and does not increase until
\* the next handleStart; a countdown interval is set only while the status
\* is CONNECTING.
C28_CountdownWhileConnecting ==
  /\ [](countdown # NoCountdown <=> status = CONNECTING)
  /\ [](countdown # NoCountdown => countdown \in 0..CountdownFrom)
  /\ [](OfKind("countdown") # {} => status = CONNECTING)
  /\ [][HandleStart => countdown' = CountdownFrom]_vars
  /\ [][(countdown # NoCountdown /\ countdown' # NoCountdown /\ ~HandleStart) =>
         countdown' <= countdown]_vars

\* C29: after connect() has failed, at whichever of its steps, the service
\* holds no connected device: isConnected() is false, no GATT connection
\* that the attempt opened is left open.
C29_FailedConnectReleased ==
  [][\A step \in DOMAIN ConnectSteps, swallowed \in BOOLEAN :
       ConnectFail(step, swallowed) => ~IsConnected']_vars

====
